---- MODULE Spec2Model ----
(***************************************************************************)
(* The five sorting routines documented under algs/: insertionSort,        *)
(* selectionSort, bubbleSort, mergeSort/merge and quickSort3Way, modelled  *)
(* loop iteration by loop iteration from the TypeScript listings.          *)
(*                                                                         *)
(* An array is a function over the zero-based index range 0..n-1, so all   *)
(* index arithmetic reads as in the source.  Every element is a pair       *)
(* <<value, tag>>: the sorts compare the value only, the tag is the index  *)
(* the element had in the input and is what stability is stated with.      *)
(***************************************************************************)
EXTENDS Integers, Sequences, FiniteSets, TLC

\* Longest input array explored.
MaxLen == 4
\* Element values range over 1..MaxVal.
MaxVal == 3
\* How many times in a row the caller applies a sort, each time to the result
\* of the time before.
MaxCalls == 2
\* The largest number an operation counter shows; no run on arrays of MaxLen
\* elements comes near it.
MaxCount == 40

Values == 1..MaxVal

VARIABLES
    alg,      \* the routine that was called ("none" before the call)
    pc,       \* control location inside the routine
    orig,     \* the caller's array as it was on entry
    arr,      \* the parameter arr of the running call
    n,        \* const n = arr.length
    i, j,     \* loop indices
    key,      \* insertionSort: const key = arr[i]
    minIdx,   \* selectionSort: let minIdx
    swapped,  \* bubbleSort: let swapped
    low, high,      \* quickSort3Way: parameters of the running call
    lt, gt, pivot,  \* quickSort3Way: locals of the running call
    mid, left, right, result,  \* mergeSort / merge: locals of the running call
    ret,      \* mergeSort: the value returned by the call that returned last
    arrRef,   \* mergeSort: which array object the parameter arr refers to
    retRef,   \* mergeSort: which array object ret refers to
    nextRef,  \* mergeSort: the next array object to be allocated
    stack,    \* the suspended callers of the running recursive call
    round,    \* how many calls the caller has made so far
    prev,     \* what the call before the running one left as its result
    arrIsNull, \* the caller's reference is null: there is no array object
    L_index, R_index, O_index,  \* MergeSort.merge (Java): its three indices
    other,    \* two invocations at once: the locals of the one that is not running
    shared,   \* two invocations at once: both were given the same array
    overlapped, \* two invocations at once: one has run while the other was under way
    count     \* what the call has executed so far, by kind of operation

vars == <<alg, pc, orig, arr, n, i, j, key, minIdx, swapped,
          low, high, lt, gt, pivot, mid, left, right, result, ret, arrRef, retRef, nextRef,
          stack, round, prev, arrIsNull, count,
          L_index, R_index, O_index, other, shared, overlapped>>

insVars == <<key>>
selVars == <<minIdx>>
bubVars == <<swapped>>
qsVars  == <<low, high, lt, gt, pivot>>
msVars  == <<mid, left, right, result, ret, arrRef, retRef, nextRef>>
msLocals == <<mid, left, right, result, ret>>
callVars == <<round, prev, arrIsNull>>
jmVars  == <<L_index, R_index, O_index>>
concVars == <<other, shared, overlapped>>

----------------------------------------------------------------------------
(* Arrays *)

Val(e) == e[1]
Tag(e) == e[2]

length(a) == Cardinality(DOMAIN a)

EmptyArr == [k \in {} |-> <<0, 0>>]

\* Array objects are numbered as they are allocated; the array the caller
\* passes is the first.
CallerRef == 0

\* a.slice(from, to)
slice(a, from, to) == [k \in 0..(to - from - 1) |-> a[from + k]]

\* a.push(x)
push(a, x) == [k \in 0..length(a) |-> IF k < length(a) THEN a[k] ELSE x]

\* a.concat(b)
concat(a, b) ==
    [k \in 0..(length(a) + length(b) - 1) |-> IF k < length(a) THEN a[k] ELSE b[k - length(a)]]

\* [a[x], a[y]] = [a[y], a[x]]
swap(a, x, y) == [a EXCEPT ![x] = a[y], ![y] = a[x]]

\* The arrays a caller can pass: every array of at most MaxLen values, each
\* element tagged with its index.
Inputs ==
    UNION { { [k \in 0..(len - 1) |-> <<x[k], k>>] : x \in [0..(len - 1) -> Values] }
            : len \in 0..MaxLen }

\* The operations counted: element comparisons, exchanges of two elements,
\* shifts of one element (insertionSort), passes (executions of an outer loop
\* body, or of a partitioning loop) and recursive calls.
NoCount == [comparisons |-> 0, exchanges |-> 0, shifts |-> 0, passes |-> 0, calls |-> 0]

\* a counter stops at MaxCount
capped(x) == IF x > MaxCount THEN MaxCount ELSE x

\* count after c more comparisons, e exchanges, s shifts, p passes, k calls
counted(c, e, s, p, k) ==
    [comparisons |-> capped(count.comparisons + c),
     exchanges   |-> capped(count.exchanges + e),
     shifts      |-> capped(count.shifts + s),
     passes      |-> capped(count.passes + p),
     calls       |-> capped(count.calls + k)]

\* the locals of an invocation of the routine a on the array s that has been
\* called and has not run yet: the parameters and the initialisers that read
\* no element (n = arr.length, i = 0 or 1, the bounds 0 and length - 1)
Called(a, s) ==
    [alg |-> a,
     pc |-> CASE a = "insertion" -> "ins_for"
              [] a = "selection" -> "sel_for"
              [] a = "bubble" -> "bub_for"
              [] a = "quick" -> "qs_entry"
              [] OTHER -> "start",
     arr |-> s, orig |-> s,
     n |-> IF a \in {"selection", "bubble"} THEN length(s) ELSE 0,
     i |-> IF a = "insertion" THEN 1 ELSE 0,
     j |-> 0, key |-> <<0, 0>>, minIdx |-> 0, swapped |-> FALSE,
     low |-> 0, high |-> IF a = "quick" THEN length(s) - 1 ELSE 0,
     lt |-> 0, gt |-> 0, pivot |-> <<0, 0>>, stack |-> <<>>]

\* there is no second invocation
NoInvocation == Called("none", EmptyArr)

----------------------------------------------------------------------------
Init ==
    /\ alg = "none"
    /\ pc = "start"
    /\ arrIsNull \in BOOLEAN
    /\ orig \in (IF arrIsNull THEN {EmptyArr} ELSE Inputs)
    /\ arr = orig
    /\ n = 0
    /\ i = 0
    /\ j = 0
    /\ key = <<0, 0>>
    /\ minIdx = 0
    /\ swapped = FALSE
    /\ low = 0
    /\ high = 0
    /\ lt = 0
    /\ gt = 0
    /\ pivot = <<0, 0>>
    /\ mid = 0
    /\ left = EmptyArr
    /\ right = EmptyArr
    /\ result = EmptyArr
    /\ ret = EmptyArr
    /\ arrRef = CallerRef
    /\ retRef = CallerRef
    /\ nextRef = CallerRef + 1
    /\ stack = <<>>
    /\ round = 0
    /\ prev = EmptyArr
    /\ count = NoCount
    /\ L_index = 0
    /\ R_index = 0
    /\ O_index = 0
    /\ other = NoInvocation
    /\ shared = FALSE
    /\ overlapped = FALSE

----------------------------------------------------------------------------
(* The caller *)

\* what the call that has returned hands back: mergeSort's return value, or
\* the array the other sorts have worked on in place
Output == IF alg = "merge" THEN ret ELSE arr

\* a with every element tagged with the index it has now
Retag(a) == [k \in DOMAIN a |-> <<Val(a[k]), k>>]

\* The caller may call sort a: for the first time on its input, or once more
\* on what the same sort has just returned.
Callable(a) ==
    \/ pc = "start"
    \/ pc = "done" /\ alg = a /\ round < MaxCalls

\* The array passed: the caller's input, or the result of the call before.
\* It is the first array object of the new call, and nothing is counted yet.
PassArgument ==
    /\ round' = round + 1
    /\ prev' = IF pc = "start" THEN prev ELSE Output
    /\ orig' = IF pc = "start" THEN orig ELSE Retag(Output)
    /\ arr' = orig'
    /\ arrRef' = CallerRef
    /\ retRef' = CallerRef
    /\ nextRef' = CallerRef + 1
    /\ count' = NoCount
    /\ UNCHANGED arrIsNull

----------------------------------------------------------------------------
(* insertionSort *)

\* the shift test reversed: arr[j] < key
insWhileCond_reversed(a, jj, k) == jj >= 0 /\ Val(a[jj]) < Val(k)

\* the shift test made non-strict: arr[j] >= key
insWhileCond_nonStrict(a, jj, k) == jj >= 0 /\ Val(a[jj]) >= Val(k)

\* the condition of the while loop: j >= 0 && arr[j] > key
insWhileCond(a, jj, k) == jj >= 0 /\ Val(a[jj]) > Val(k)

Call_insertionSort ==
    /\ Callable("insertion")
    /\ alg' = "insertion"
    /\ PassArgument
    /\ i' = 1
    /\ pc' = "ins_for"
    /\ UNCHANGED <<n, j, insVars, selVars, bubVars, qsVars, msLocals, stack, jmVars, concVars>>

\* for (let i = 1; i < arr.length; i++) { const key = arr[i]; let j = i - 1;
ins_for ==
    /\ pc = "ins_for"
    /\ ~arrIsNull
    /\ IF i < length(arr)
         THEN /\ key' = arr[i]
              /\ j' = i - 1
              /\ pc' = "ins_while"
         ELSE /\ pc' = "done"
              /\ UNCHANGED <<key, j>>
    /\ count' = counted(0, 0, 0, IF i < length(arr) THEN 1 ELSE 0, 0)
    /\ UNCHANGED <<alg, orig, arr, n, i, selVars, bubVars, qsVars, msVars, stack, callVars, jmVars, concVars>>

\* while (j >= 0 && arr[j] > key) { arr[j + 1] = arr[j]; j--; }
ins_shift ==
    /\ pc = "ins_while"
    /\ insWhileCond(arr, j, key)
    /\ arr' = [arr EXCEPT ![j + 1] = arr[j]]
    /\ j' = j - 1
    /\ count' = counted(1, 0, 1, 0, 0)
    /\ UNCHANGED <<alg, pc, orig, n, i, insVars, selVars, bubVars, qsVars, msVars, stack, callVars, jmVars, concVars>>

\* arr[j + 1] = key;  and the i++ of the for loop
ins_place ==
    /\ pc = "ins_while"
    /\ ~insWhileCond(arr, j, key)
    /\ arr' = [arr EXCEPT ![j + 1] = key]
    /\ i' = i + 1
    /\ pc' = "ins_for"
    /\ count' = counted(IF j >= 0 THEN 1 ELSE 0, 0, 0, 0, 0)
    /\ UNCHANGED <<alg, orig, n, j, insVars, selVars, bubVars, qsVars, msVars, stack, callVars, jmVars, concVars>>

----------------------------------------------------------------------------
(* selectionSort *)

\* the minimum test reversed: arr[j] > arr[minIdx]
selLess_reversed(a, jj, m) == Val(a[jj]) > Val(a[m])

\* the minimum test made non-strict: arr[j] <= arr[minIdx]
selLess_nonStrict(a, jj, m) == Val(a[jj]) <= Val(a[m])

\* the test of the inner loop: arr[j] < arr[minIdx]
selLess(a, jj, m) == Val(a[jj]) < Val(a[m])

\* the outer loop run once too often: i < n
selOuterCond_toN(ii, nn) == ii < nn

\* the test of the outer loop: i < n - 1
selOuterCond(ii, nn) == ii < nn - 1

\* const n = arr.length;  and the initialisation of the outer for loop
Call_selectionSort ==
    /\ Callable("selection")
    /\ alg' = "selection"
    /\ PassArgument
    /\ n' = length(arr')
    /\ i' = 0
    /\ pc' = IF arrIsNull THEN "thrown" ELSE "sel_for"
    /\ UNCHANGED <<j, insVars, selVars, bubVars, qsVars, msLocals, stack, jmVars, concVars>>

\* for (let i = 0; i < n - 1; i++) { let minIdx = i;  and let j = i + 1
sel_for ==
    /\ pc = "sel_for"
    /\ IF selOuterCond(i, n)
         THEN /\ minIdx' = i
              /\ j' = i + 1
              /\ pc' = "sel_inner"
         ELSE /\ pc' = "done"
              /\ UNCHANGED <<minIdx, j>>
    /\ count' = counted(0, 0, 0, IF selOuterCond(i, n) THEN 1 ELSE 0, 0)
    /\ UNCHANGED <<alg, orig, arr, n, i, insVars, bubVars, qsVars, msVars, stack, callVars, jmVars, concVars>>

\* for (...; j < n; j++) { if (arr[j] < arr[minIdx]) { minIdx = j; } }
sel_scan ==
    /\ pc = "sel_inner"
    /\ j < n
    /\ minIdx' = IF selLess(arr, j, minIdx) THEN j ELSE minIdx
    /\ j' = j + 1
    /\ count' = counted(1, 0, 0, 0, 0)
    /\ UNCHANGED <<alg, pc, orig, arr, n, i, insVars, bubVars, qsVars, msVars, stack, callVars, jmVars, concVars>>

\* [arr[i], arr[minIdx]] = [arr[minIdx], arr[i]];  and the i++ of the outer loop
sel_swap ==
    /\ pc = "sel_inner"
    /\ ~(j < n)
    /\ arr' = swap(arr, i, minIdx)
    /\ i' = i + 1
    /\ pc' = "sel_for"
    /\ count' = counted(0, 1, 0, 0, 0)
    /\ UNCHANGED <<alg, orig, n, j, insVars, selVars, bubVars, qsVars, msVars, stack, callVars, jmVars, concVars>>

----------------------------------------------------------------------------
(* bubbleSort *)

\* the exchange test made non-strict: arr[j] >= arr[j + 1]
bubGreater_nonStrict(a, jj) == Val(a[jj]) >= Val(a[jj + 1])

\* the test of the inner loop: arr[j] > arr[j + 1]
bubGreater(a, jj) == Val(a[jj]) > Val(a[jj + 1])

\* the early exit inverted: if (swapped) break;
bubBreak_inverted(s) == s

\* if (!swapped) break;
bubBreak(s) == ~s

\* the inner loop cut one pair short: j < n - i - 2
bubInnerCond_short(jj, nn, ii) == jj < nn - ii - 2

\* the test of the inner loop: j < n - i - 1
bubInnerCond(jj, nn, ii) == jj < nn - ii - 1

\* const n = arr.length;  and the initialisation of the outer for loop
Call_bubbleSort ==
    /\ Callable("bubble")
    /\ alg' = "bubble"
    /\ PassArgument
    /\ n' = length(arr')
    /\ i' = 0
    /\ pc' = IF arrIsNull THEN "thrown" ELSE "bub_for"
    /\ UNCHANGED <<j, insVars, selVars, bubVars, qsVars, msLocals, stack, jmVars, concVars>>

\* for (let i = 0; i < n - 1; i++) { let swapped = false;  and let j = 0
bub_for ==
    /\ pc = "bub_for"
    /\ IF i < n - 1
         THEN /\ swapped' = FALSE
              /\ j' = 0
              /\ pc' = "bub_inner"
         ELSE /\ pc' = "done"
              /\ UNCHANGED <<swapped, j>>
    /\ count' = counted(0, 0, 0, IF i < n - 1 THEN 1 ELSE 0, 0)
    /\ UNCHANGED <<alg, orig, arr, n, i, insVars, selVars, qsVars, msVars, stack, callVars, jmVars, concVars>>

\* for (...; j < n - i - 1; j++) { if (arr[j] > arr[j + 1]) { swap; swapped = true; } }
bub_compare ==
    /\ pc = "bub_inner"
    /\ bubInnerCond(j, n, i)
    /\ IF bubGreater(arr, j)
         THEN /\ arr' = swap(arr, j, j + 1)
              /\ swapped' = TRUE
         ELSE UNCHANGED <<arr, swapped>>
    /\ j' = j + 1
    /\ count' = counted(1, IF bubGreater(arr, j) THEN 1 ELSE 0, 0, 0, 0)
    /\ UNCHANGED <<alg, pc, orig, n, i, insVars, selVars, qsVars, msVars, stack, callVars, jmVars, concVars>>

\* if (!swapped) break;  otherwise the i++ of the outer loop
bub_endPass ==
    /\ pc = "bub_inner"
    /\ ~bubInnerCond(j, n, i)
    /\ IF bubBreak(swapped)
         THEN /\ pc' = "done"
              /\ UNCHANGED i
         ELSE /\ pc' = "bub_for"
              /\ i' = i + 1
    /\ UNCHANGED <<alg, orig, arr, n, j, insVars, selVars, bubVars, qsVars, msVars, stack, count, callVars, jmVars, concVars>>

----------------------------------------------------------------------------
(* quickSort3Way *)

\* the less-than test made non-strict: arr[i] <= pivot
qsLess_nonStrict(a, ii, p) == Val(a[ii]) <= Val(p)

\* arr[i] < pivot
qsLess(a, ii, p) == Val(a[ii]) < Val(p)

\* arr[i] > pivot
qsGreater(a, ii, p) == Val(a[ii]) > Val(p)

\* the base case mistaken for equality only: if (low == high) return;
qsBaseCond_onlyEqual(lo, hi) == lo = hi

\* the base case test: low >= high
qsBaseCond(lo, hi) == lo >= hi

\* The bounds a caller passes.  The listing checks neither of them, so a
\* caller can also pass a low below 0 or a high of length and more; the
\* top-level call of the listing's defaults is low = 0, high = arr.length - 1.
qsBounds(a) == (-1..length(a)) \X (-1..length(a))

\* The indices of arr that the next step of the running call reads or writes:
\* arr[low] for the pivot, arr[i] for the tests, and arr[lt] or arr[gt] for
\* the exchange of the branch that arr[i] selects.
qsTouched ==
    IF pc = "qs_entry"
      THEN IF qsBaseCond(low, high) THEN {} ELSE {low}
      ELSE IF pc = "qs_while" /\ i <= gt
        THEN {i} \cup
             (IF i \notin DOMAIN arr THEN {}
              ELSE IF qsLess(arr, i, pivot) THEN {lt}
              ELSE IF qsGreater(arr, i, pivot) THEN {gt}
              ELSE {})
        ELSE {}

\* The caller's frame as it is suspended by a recursive call.
qsFrame(rpc) ==
    [low |-> low, high |-> high, lt |-> lt, gt |-> gt, pivot |-> pivot, i |-> i, rpc |-> rpc]

\* return: resume the caller, or finish when the outermost call returns
qsReturn ==
    IF stack = <<>>
      THEN /\ pc' = "done"
           /\ UNCHANGED <<low, high, lt, gt, pivot, i, stack>>
      ELSE /\ pc' = Head(stack).rpc
           /\ low' = Head(stack).low
           /\ high' = Head(stack).high
           /\ lt' = Head(stack).lt
           /\ gt' = Head(stack).gt
           /\ pivot' = Head(stack).pivot
           /\ i' = Head(stack).i
           /\ stack' = Tail(stack)

\* the recursive call quickSort3Way(arr, lo, hi)
qsCall(lo, hi, rpc) ==
    /\ stack' = <<qsFrame(rpc)>> \o stack
    /\ low' = lo
    /\ high' = hi
    /\ pc' = "qs_entry"
    /\ UNCHANGED <<lt, gt, pivot, i>>

\* the left recursive call started one position late: low + 1
qsLeftLow_offByOne == low + 1

\* the first argument of the first recursive call
qsLeftLow == low

\* the right recursive call run to the end of the array: arr.length - 1
qsRightHigh_toEnd == length(arr) - 1

\* the third argument of the second recursive call
qsRightHigh == high

\* quickSort3Way(arr, low, high); a repeated call passes the same bounds.
\* With high left out its default arr.length - 1 is evaluated on entry, which
\* on a present array is one of the bounds above and on null throws.
Call_quickSort3Way ==
    /\ Callable("quick")
    /\ alg' = "quick"
    /\ PassArgument
    /\ IF pc = "start"
         THEN \/ \E b \in qsBounds(arr) :
                    /\ low' = b[1]
                    /\ high' = b[2]
                    /\ pc' = "qs_entry"
              \/ /\ arrIsNull
                 /\ pc' = "thrown"
                 /\ UNCHANGED <<low, high>>
         ELSE /\ pc' = "qs_entry"
              /\ UNCHANGED <<low, high>>
    /\ UNCHANGED <<n, i, j, insVars, selVars, bubVars, lt, gt, pivot, msLocals, stack, jmVars, concVars>>

\* if (low >= high) return;
qs_base ==
    /\ pc = "qs_entry"
    /\ alg = "quick"
    /\ qsBaseCond(low, high)
    /\ qsReturn
    /\ UNCHANGED <<alg, orig, arr, n, j, insVars, selVars, bubVars, msVars, count, callVars, jmVars, concVars>>

\* let lt = low, gt = high; const pivot = arr[low]; let i = low + 1;
qs_init ==
    /\ pc = "qs_entry"
    /\ alg = "quick"
    /\ ~qsBaseCond(low, high)
    /\ ~arrIsNull
    /\ qsTouched \subseteq DOMAIN arr
    /\ lt' = low
    /\ gt' = high
    /\ pivot' = arr[low]
    /\ i' = low + 1
    /\ pc' = "qs_while"
    /\ count' = counted(0, 0, 0, 1, 0)
    /\ UNCHANGED <<alg, orig, arr, n, j, insVars, selVars, bubVars, low, high, msVars, stack, callVars, jmVars, concVars>>

\* if (arr[i] < pivot) { [arr[lt], arr[i]] = [arr[i], arr[lt]]; lt++; i++; }
qs_less ==
    /\ pc = "qs_while"
    /\ i <= gt
    /\ qsTouched \subseteq DOMAIN arr
    /\ qsLess(arr, i, pivot)
    /\ arr' = swap(arr, lt, i)
    /\ lt' = lt + 1
    /\ i' = i + 1
    /\ count' = counted(1, 1, 0, 0, 0)
    /\ UNCHANGED <<alg, pc, orig, n, j, insVars, selVars, bubVars, low, high, gt, pivot, msVars, stack, callVars, jmVars, concVars>>

\* the greater-than branch with the gt-- forgotten
qs_greater_noDecrement ==
    /\ pc = "qs_while"
    /\ i <= gt
    /\ qsTouched \subseteq DOMAIN arr
    /\ ~qsLess(arr, i, pivot)
    /\ qsGreater(arr, i, pivot)
    /\ arr' = swap(arr, i, gt)
    /\ count' = counted(2, 1, 0, 0, 0)
    /\ UNCHANGED <<alg, pc, orig, n, i, j, insVars, selVars, bubVars, qsVars, msVars, stack, callVars, jmVars, concVars>>

\* the greater-than branch that also advances the scan: gt--; i++;
qs_greater_advance ==
    /\ pc = "qs_while"
    /\ i <= gt
    /\ qsTouched \subseteq DOMAIN arr
    /\ ~qsLess(arr, i, pivot)
    /\ qsGreater(arr, i, pivot)
    /\ arr' = swap(arr, i, gt)
    /\ gt' = gt - 1
    /\ i' = i + 1
    /\ count' = counted(2, 1, 0, 0, 0)
    /\ UNCHANGED <<alg, pc, orig, n, j, insVars, selVars, bubVars, low, high, lt, pivot, msVars, stack, callVars, jmVars, concVars>>

\* else if (arr[i] > pivot) { [arr[i], arr[gt]] = [arr[gt], arr[i]]; gt--; }
qs_greater ==
    /\ pc = "qs_while"
    /\ i <= gt
    /\ qsTouched \subseteq DOMAIN arr
    /\ ~qsLess(arr, i, pivot)
    /\ qsGreater(arr, i, pivot)
    /\ arr' = swap(arr, i, gt)
    /\ gt' = gt - 1
    /\ count' = counted(2, 1, 0, 0, 0)
    /\ UNCHANGED <<alg, pc, orig, n, i, j, insVars, selVars, bubVars, low, high, lt, pivot, msVars, stack, callVars, jmVars, concVars>>

\* else { i++; }
qs_equal ==
    /\ pc = "qs_while"
    /\ i <= gt
    /\ qsTouched \subseteq DOMAIN arr
    /\ ~qsLess(arr, i, pivot)
    /\ ~qsGreater(arr, i, pivot)
    /\ i' = i + 1
    /\ count' = counted(2, 0, 0, 0, 0)
    /\ UNCHANGED <<alg, pc, orig, arr, n, j, insVars, selVars, bubVars, qsVars, msVars, stack, callVars, jmVars, concVars>>

\* The next step reads or writes an index outside 0..length-1.  Nothing in
\* the listing rejects it: the read yields undefined and the write lands
\* outside the index range.  The run is followed up to this first access.
qs_outOfRange ==
    /\ pc \in {"qs_entry", "qs_while"}
    /\ ~arrIsNull
    /\ ~(qsTouched \subseteq DOMAIN arr)
    /\ pc' = "oob"
    /\ UNCHANGED <<alg, orig, arr, n, i, j, insVars, selVars, bubVars, qsVars, msVars, stack, count, callVars, jmVars, concVars>>

\* quickSort3Way(arr, low, lt - 1);
qs_callLeft ==
    /\ pc = "qs_while"
    /\ ~(i <= gt)
    /\ qsCall(qsLeftLow, lt - 1, "qs_after1")
    /\ count' = counted(0, 0, 0, 0, 1)
    /\ UNCHANGED <<alg, orig, arr, n, j, insVars, selVars, bubVars, msVars, callVars, jmVars, concVars>>

\* quickSort3Way(arr, gt + 1, high);
qs_callRight ==
    /\ pc = "qs_after1"
    /\ qsCall(gt + 1, qsRightHigh, "qs_after2")
    /\ count' = counted(0, 0, 0, 0, 1)
    /\ UNCHANGED <<alg, orig, arr, n, j, insVars, selVars, bubVars, msVars, callVars, jmVars, concVars>>

\* the end of the function body
qs_end ==
    /\ pc = "qs_after2"
    /\ qsReturn
    /\ UNCHANGED <<alg, orig, arr, n, j, insVars, selVars, bubVars, msVars, count, callVars, jmVars, concVars>>

----------------------------------------------------------------------------
(* mergeSort and merge *)

\* the merge test made strict: left[i] < right[j]
mergeLeq_strict(l, ii, r, jj) == Val(l[ii]) < Val(r[jj])

\* the test of merge's loop body: left[i] <= right[j]
mergeLeq(l, ii, r, jj) == Val(l[ii]) <= Val(r[jj])

\* the condition of merge's while loop: i < left.length && j < right.length
mergeWhileCond == i < length(left) /\ j < length(right)

\* the remainder of the right half forgotten: result.concat(left.slice(i))
mergeRest_dropRight(res, l, ii, r, jj) == concat(res, slice(l, ii, length(l)))

\* return result.concat(left.slice(i)).concat(right.slice(j));
mergeRest(res, l, ii, r, jj) ==
    concat(concat(res, slice(l, ii, length(l))), slice(r, jj, length(r)))

\* an off-by-one base case: if (arr.length <= 2)
msBaseCond_two(a) == length(a) <= 2

\* the base case test: arr.length <= 1
msBaseCond(a) == length(a) <= 1

\* The caller's frame as it is suspended by a recursive call.
msFrame(m, l, rpc) ==
    [arr |-> arr, arrRef |-> arrRef, mid |-> m, left |-> l, rpc |-> rpc]

\* return v, the array object r: resume the caller, or finish when the
\* outermost call returns
msReturn(v, r) ==
    /\ ret' = v
    /\ retRef' = r
    /\ IF stack = <<>>
         THEN /\ pc' = "done"
              /\ UNCHANGED <<arr, arrRef, mid, left, stack>>
         ELSE /\ pc' = Head(stack).rpc
              /\ arr' = Head(stack).arr
              /\ arrRef' = Head(stack).arrRef
              /\ mid' = Head(stack).mid
              /\ left' = Head(stack).left
              /\ stack' = Tail(stack)

Call_mergeSort ==
    /\ Callable("merge")
    /\ alg' = "merge"
    /\ PassArgument
    /\ pc' = "ms_entry"
    /\ UNCHANGED <<n, i, j, insVars, selVars, bubVars, qsVars, msLocals, stack, jmVars, concVars>>

\* if (arr.length <= 1) { return arr; }
ms_base ==
    /\ pc = "ms_entry"
    /\ ~arrIsNull
    /\ msBaseCond(arr)
    /\ msReturn(arr, arrRef)
    /\ UNCHANGED <<alg, orig, n, i, j, insVars, selVars, bubVars, qsVars, right, result, nextRef, count, callVars, jmVars, concVars>>

\* const mid = Math.floor(arr.length / 2);  and the call mergeSort(arr.slice(0, mid))
ms_split ==
    /\ pc = "ms_entry"
    /\ ~arrIsNull
    /\ ~msBaseCond(arr)
    /\ mid' = length(arr) \div 2
    /\ stack' = <<msFrame(mid', left, "ms_after_left")>> \o stack
    /\ arr' = slice(arr, 0, mid')
    /\ arrRef' = nextRef
    /\ nextRef' = nextRef + 1
    /\ pc' = "ms_entry"
    /\ count' = counted(0, 0, 0, 0, 1)
    /\ UNCHANGED <<alg, orig, n, i, j, insVars, selVars, bubVars, qsVars, left, right, result, ret, retRef, callVars, jmVars, concVars>>

\* const left = <the value returned>;  and the call mergeSort(arr.slice(mid))
ms_afterLeft ==
    /\ pc = "ms_after_left"
    /\ left' = ret
    /\ stack' = <<msFrame(mid, left', "ms_after_right")>> \o stack
    /\ arr' = slice(arr, mid, length(arr))
    /\ arrRef' = nextRef
    /\ nextRef' = nextRef + 1
    /\ pc' = "ms_entry"
    /\ count' = counted(0, 0, 0, 0, 1)
    /\ UNCHANGED <<alg, orig, n, i, j, insVars, selVars, bubVars, qsVars, mid, right, result, ret, retRef, callVars, jmVars, concVars>>

\* const right = <the value returned>;  and the entry of merge(left, right):
\* const result = []; let i = 0, j = 0;
ms_afterRight ==
    /\ pc = "ms_after_right"
    /\ right' = ret
    /\ result' = EmptyArr
    /\ i' = 0
    /\ j' = 0
    /\ pc' = "mg_while"
    /\ UNCHANGED <<alg, orig, arr, n, insVars, selVars, bubVars, qsVars, mid, left, ret, arrRef, retRef, nextRef, stack, count, callVars, jmVars, concVars>>

\* if (left[i] <= right[j]) { result.push(left[i++]); }
mg_takeLeft ==
    /\ pc = "mg_while"
    /\ mergeWhileCond
    /\ mergeLeq(left, i, right, j)
    /\ result' = push(result, left[i])
    /\ i' = i + 1
    /\ count' = counted(1, 0, 0, 0, 0)
    /\ UNCHANGED <<alg, pc, orig, arr, n, j, insVars, selVars, bubVars, qsVars, mid, left, right, ret, arrRef, retRef, nextRef, stack, callVars, jmVars, concVars>>

\* else { result.push(right[j++]); }
mg_takeRight ==
    /\ pc = "mg_while"
    /\ mergeWhileCond
    /\ ~mergeLeq(left, i, right, j)
    /\ result' = push(result, right[j])
    /\ j' = j + 1
    /\ count' = counted(1, 0, 0, 0, 0)
    /\ UNCHANGED <<alg, pc, orig, arr, n, i, insVars, selVars, bubVars, qsVars, mid, left, right, ret, arrRef, retRef, nextRef, stack, callVars, jmVars, concVars>>

\* merge writing its result back into the array it was called for, as an
\* in-place merge sort does, before the result is returned
mg_return_writeBack ==
    /\ pc = "mg_while"
    /\ ~mergeWhileCond
    /\ ret' = mergeRest(result, left, i, right, j)
    /\ retRef' = nextRef
    /\ nextRef' = nextRef + 1
    /\ IF stack = <<>>
         THEN /\ pc' = "done"
              /\ arr' = ret'
              /\ UNCHANGED <<arrRef, mid, left, stack>>
         ELSE /\ pc' = Head(stack).rpc
              /\ arr' = Head(stack).arr
              /\ arrRef' = Head(stack).arrRef
              /\ mid' = Head(stack).mid
              /\ left' = Head(stack).left
              /\ stack' = Tail(stack)
    /\ UNCHANGED <<alg, orig, n, i, j, insVars, selVars, bubVars, qsVars, right, result, count, callVars, jmVars, concVars>>

\* return result.concat(left.slice(i)).concat(right.slice(j));  the array
\* that concat allocates, which is also what the calling mergeSort returns
mg_return ==
    /\ pc = "mg_while"
    /\ ~mergeWhileCond
    /\ msReturn(mergeRest(result, left, i, right, j), nextRef)
    /\ nextRef' = nextRef + 1
    /\ UNCHANGED <<alg, orig, n, i, j, insVars, selVars, bubVars, qsVars, right, result, count, callVars, jmVars, concVars>>

----------------------------------------------------------------------------
(* quicksort3.sort, the Java listing of the three-way quicksort *)

\* the scan started two positions on: int i = low + 2;
jqsScanStart_plusTwo == low + 2

\* int i = low;
jqsScanStart == low

\* sort(array, low, high) called with the contents and the bounds that
\* quickSort3Way has just been run on, 0 <= low and high < length; what
\* quickSort3Way left is kept in prev for comparison
Call_quicksort3_sort ==
    /\ pc = "done"
    /\ alg = "quick"
    /\ 0 <= low /\ high < length(orig)
    /\ alg' = "quicksort3"
    /\ prev' = arr
    /\ arr' = orig
    /\ round' = round + 1
    /\ count' = NoCount
    /\ pc' = "qs_entry"
    /\ UNCHANGED <<orig, n, i, j, insVars, selVars, bubVars, qsVars, msVars, stack, arrIsNull, jmVars, concVars>>

\* if (high <= low) { return; }
jqs_base ==
    /\ pc = "qs_entry"
    /\ alg = "quicksort3"
    /\ high <= low
    /\ qsReturn
    /\ UNCHANGED <<alg, orig, arr, n, j, insVars, selVars, bubVars, msVars, count, callVars, jmVars, concVars>>

\* int lt = low; int gt = high; int i = low; int pivot = array[low];
\* The loop and the two recursive calls that follow are those of
\* quickSort3Way statement for statement, and take the same steps.
jqs_init ==
    /\ pc = "qs_entry"
    /\ alg = "quicksort3"
    /\ ~(high <= low)
    /\ lt' = low
    /\ gt' = high
    /\ i' = jqsScanStart
    /\ pivot' = arr[low]
    /\ pc' = "qs_while"
    /\ count' = counted(0, 0, 0, 1, 0)
    /\ UNCHANGED <<alg, orig, arr, n, j, insVars, selVars, bubVars, low, high, msVars, stack, callVars, jmVars, concVars>>

----------------------------------------------------------------------------
(* MergeSort.mergeSort and MergeSort.merge, the Java listing of merge sort *)

\* The caller's frame as it is suspended by a recursive call.
jmsFrame(a, l, r, rpc) == [arr |-> a, left |-> l, right |-> r, rpc |-> rpc]

\* return: the caller goes on with the array it passed, leftArray or
\* rightArray, as the call left it; or the outermost call returns
jmsReturn ==
    IF stack = <<>>
      THEN /\ pc' = "done"
           /\ UNCHANGED <<arr, left, right, stack>>
      ELSE /\ pc' = Head(stack).rpc
           /\ arr' = Head(stack).arr
           /\ left' = IF Head(stack).rpc = "jms_after_left" THEN arr ELSE Head(stack).left
           /\ right' = IF Head(stack).rpc = "jms_after_right" THEN arr ELSE Head(stack).right
           /\ stack' = Tail(stack)

\* The values that the names i and j have in merge.  merge declares neither
\* (its indices are L_index, R_index and O_index) and assigns neither: they
\* are whatever a declaration outside the listing makes them, the same
\* throughout the call.
Undeclared == 0..MaxLen

\* MergeSort.mergeSort(array)
Call_MergeSort_mergeSort ==
    /\ pc = "start"
    /\ alg' = "MergeSort"
    /\ PassArgument
    /\ \E ui, uj \in Undeclared :
          /\ i' = ui
          /\ j' = uj
    /\ pc' = "jms_entry"
    /\ UNCHANGED <<n, insVars, selVars, bubVars, qsVars, msLocals, stack, jmVars, concVars>>

\* if (array.length < 2) { return; }
jms_base ==
    /\ pc = "jms_entry"
    /\ length(arr) < 2
    /\ jmsReturn
    /\ UNCHANGED <<alg, orig, n, i, j, insVars, selVars, bubVars, qsVars, mid, result, ret, arrRef, retRef, nextRef, count, callVars, jmVars, concVars>>

\* int mid = array.length / 2;  the two arrays and the loops that fill them
\* from array;  and the call mergeSort(leftArray)
jms_split ==
    /\ pc = "jms_entry"
    /\ ~(length(arr) < 2)
    /\ mid' = length(arr) \div 2
    /\ left' = slice(arr, 0, mid')
    /\ right' = slice(arr, mid', length(arr))
    /\ stack' = <<jmsFrame(arr, left', right', "jms_after_left")>> \o stack
    /\ arr' = left'
    /\ pc' = "jms_entry"
    /\ count' = counted(0, 0, 0, 0, 1)
    /\ UNCHANGED <<alg, orig, n, i, j, insVars, selVars, bubVars, qsVars, result, ret, arrRef, retRef, nextRef, callVars, jmVars, concVars>>

\* mergeSort(rightArray);
jms_afterLeft ==
    /\ pc = "jms_after_left"
    /\ stack' = <<jmsFrame(arr, left, right, "jms_after_right")>> \o stack
    /\ arr' = right
    /\ pc' = "jms_entry"
    /\ count' = counted(0, 0, 0, 0, 1)
    /\ UNCHANGED <<alg, orig, n, i, j, insVars, selVars, bubVars, qsVars, mid, left, right, result, ret, arrRef, retRef, nextRef, callVars, jmVars, concVars>>

\* merge(array, leftArray, rightArray):  int L_index = 0; int R_index = 0;
\* int O_index = 0;
jms_afterRight ==
    /\ pc = "jms_after_right"
    /\ L_index' = 0
    /\ R_index' = 0
    /\ O_index' = 0
    /\ pc' = "jm_while"
    /\ UNCHANGED <<alg, orig, arr, n, i, j, insVars, selVars, bubVars, qsVars, msVars, stack, count, callVars, concVars>>

\* the test of the first loop: i < leftArray.length && j < rightArray.length
jmWhileCond == i < length(left) /\ j < length(right)

\* the test with the indices that merge advances
jmWhileCond_indices == L_index < length(left) /\ R_index < length(right)

\* what the third loop copies: rightArray[j]
jmRightSource == j

\* the third loop copying rightArray[R_index]
jmRightSource_index == R_index

\* Every index of the statement that runs next is inside its array.
jmInBounds ==
    CASE pc = "jm_while" /\ jmWhileCond ->
             /\ L_index \in DOMAIN left
             /\ R_index \in DOMAIN right
             /\ O_index \in DOMAIN arr
      [] pc = "jm_left" /\ L_index < length(left) ->
             /\ L_index \in DOMAIN left
             /\ O_index \in DOMAIN arr
      [] pc = "jm_right" /\ R_index < length(right) ->
             /\ jmRightSource \in DOMAIN right
             /\ O_index \in DOMAIN arr
      [] OTHER -> TRUE

\* the body of the first loop: the smaller head goes to array[O_index]
jm_while ==
    /\ pc = "jm_while"
    /\ jmWhileCond
    /\ jmInBounds
    /\ IF Val(left[L_index]) <= Val(right[R_index])
         THEN /\ arr' = [arr EXCEPT ![O_index] = left[L_index]]
              /\ L_index' = L_index + 1
              /\ UNCHANGED R_index
         ELSE /\ arr' = [arr EXCEPT ![O_index] = right[R_index]]
              /\ R_index' = R_index + 1
              /\ UNCHANGED L_index
    /\ O_index' = O_index + 1
    /\ count' = counted(1, 0, 0, 0, 0)
    /\ UNCHANGED <<alg, pc, orig, n, i, j, insVars, selVars, bubVars, qsVars, mid, left, right, result, ret, arrRef, retRef, nextRef, stack, callVars, concVars>>

\* the first loop is left
jm_whileExit ==
    /\ pc = "jm_while"
    /\ ~jmWhileCond
    /\ pc' = "jm_left"
    /\ UNCHANGED <<alg, orig, arr, n, i, j, insVars, selVars, bubVars, qsVars, msVars, stack, count, callVars, jmVars, concVars>>

\* while (L_index < leftArray.length) { array[O_index] = leftArray[L_index]; ... }
jm_copyLeft ==
    /\ pc = "jm_left"
    /\ L_index < length(left)
    /\ jmInBounds
    /\ arr' = [arr EXCEPT ![O_index] = left[L_index]]
    /\ L_index' = L_index + 1
    /\ O_index' = O_index + 1
    /\ UNCHANGED <<alg, pc, orig, n, i, j, insVars, selVars, bubVars, qsVars, mid, left, right, result, ret, arrRef, retRef, nextRef, stack, count, callVars, R_index, concVars>>

\* the second loop is left
jm_leftExit ==
    /\ pc = "jm_left"
    /\ ~(L_index < length(left))
    /\ pc' = "jm_right"
    /\ UNCHANGED <<alg, orig, arr, n, i, j, insVars, selVars, bubVars, qsVars, msVars, stack, count, callVars, jmVars, concVars>>

\* while (R_index < rightArray.length) { array[O_index] = rightArray[j]; ... }
jm_copyRight ==
    /\ pc = "jm_right"
    /\ R_index < length(right)
    /\ jmInBounds
    /\ arr' = [arr EXCEPT ![O_index] = right[jmRightSource]]
    /\ R_index' = R_index + 1
    /\ O_index' = O_index + 1
    /\ UNCHANGED <<alg, pc, orig, n, i, j, insVars, selVars, bubVars, qsVars, mid, left, right, result, ret, arrRef, retRef, nextRef, stack, count, callVars, L_index, concVars>>

\* an index outside its array: ArrayIndexOutOfBoundsException, which no
\* frame catches
jm_outOfBounds ==
    /\ pc \in {"jm_while", "jm_left", "jm_right"}
    /\ ~jmInBounds
    /\ pc' = "ArrayIndexOutOfBounds"
    /\ UNCHANGED <<alg, orig, arr, n, i, j, insVars, selVars, bubVars, qsVars, msVars, stack, count, callVars, jmVars, concVars>>

\* the end of merge, and with it of the mergeSort call that made it
jm_return ==
    /\ pc = "jm_right"
    /\ ~(R_index < length(right))
    /\ jmsReturn
    /\ UNCHANGED <<alg, orig, n, i, j, insVars, selVars, bubVars, qsVars, mid, result, ret, arrRef, retRef, nextRef, count, callVars, jmVars, concVars>>

----------------------------------------------------------------------------
(* A null reference *)

\* The next step of the running call reads a property of arr: arr.length in
\* insertionSort's loop test and in mergeSort's base test, arr[low] for
\* quickSort3Way's pivot.  The low >= high return of quickSort3Way reads none.
Dereferences ==
    \/ pc \in {"ins_for", "ms_entry"}
    \/ pc = "qs_entry" /\ ~qsBaseCond(low, high)

\* reading a property of null throws a TypeError, which ends the call
throw_TypeError ==
    /\ arrIsNull
    /\ Dereferences
    /\ pc' = "thrown"
    /\ UNCHANGED <<alg, orig, arr, n, i, j, insVars, selVars, bubVars, qsVars, msVars, stack, count, callVars, jmVars, concVars>>

----------------------------------------------------------------------------
Next ==
    \/ Call_insertionSort
    \/ ins_for
    \/ ins_shift
    \/ ins_place
    \/ Call_selectionSort
    \/ sel_for
    \/ sel_scan
    \/ sel_swap
    \/ Call_bubbleSort
    \/ bub_for
    \/ bub_compare
    \/ bub_endPass
    \/ Call_quickSort3Way
    \/ qs_base
    \/ qs_init
    \/ qs_less
    \/ qs_greater
    \/ qs_equal
    \/ qs_outOfRange
    \/ qs_callLeft
    \/ qs_callRight
    \/ qs_end
    \/ Call_mergeSort
    \/ ms_base
    \/ ms_split
    \/ ms_afterLeft
    \/ ms_afterRight
    \/ mg_takeLeft
    \/ mg_takeRight
    \/ mg_return
    \/ throw_TypeError

Spec == Init /\ [][Next]_vars

\* The sorts are synchronous and single-threaded: a call that has a next step
\* takes it, and a caller that means to call again does.
FairSpec == Spec /\ WF_vars(Next)

----------------------------------------------------------------------------
(* The Java listings *)

\* the caller holds an array
JavaInit == Init /\ ~arrIsNull

\* quickSort3Way, and then quicksort3.sort on the same contents and bounds
QuickJavaNext ==
    \/ Call_quickSort3Way
    \/ qs_base
    \/ qs_init
    \/ qs_less
    \/ qs_greater
    \/ qs_equal
    \/ qs_outOfRange
    \/ qs_callLeft
    \/ qs_callRight
    \/ qs_end
    \/ Call_quicksort3_sort
    \/ jqs_base
    \/ jqs_init

QuickJavaSpec == JavaInit /\ [][QuickJavaNext]_vars

MergeJavaNext ==
    \/ Call_MergeSort_mergeSort
    \/ jms_base
    \/ jms_split
    \/ jms_afterLeft
    \/ jms_afterRight
    \/ jm_while
    \/ jm_whileExit
    \/ jm_copyLeft
    \/ jm_leftExit
    \/ jm_copyRight
    \/ jm_outOfBounds
    \/ jm_return

MergeJavaSpec == JavaInit /\ [][MergeJavaNext]_vars

----------------------------------------------------------------------------
(* Two invocations at once *)

\* The sorts that are run two at a time: insertionSort and selectionSort on
\* one array, bubbleSort and quickSort3Way on an array each.  All four write
\* into the array they are given.
InPlaceSorts == IF shared THEN {"insertion", "selection"} ELSE {"bubble", "quick"}

\* The locals of the running invocation, with its array when the two
\* invocations have an array each.
Context ==
    [alg |-> alg, pc |-> pc,
     arr |-> IF shared THEN EmptyArr ELSE arr, orig |-> orig,
     n |-> n, i |-> i, j |-> j, key |-> key, minIdx |-> minIdx, swapped |-> swapped,
     low |-> low, high |-> high, lt |-> lt, gt |-> gt, pivot |-> pivot, stack |-> stack]

\* Context as it is when the invocation of a on s has been called and has
\* not run yet
StartContext(a, s) == [Called(a, s) EXCEPT !.arr = IF shared THEN EmptyArr ELSE s]

\* the running invocation has taken a step
Begun == Context # StartContext(alg, orig)

\* The scheduler leaves the running invocation exchanging it for the other
\* but with every array left where it is, so that the other invocation goes on
\* in the array of the first.
Switch_keepArray ==
    /\ other.alg # "none"
    /\ other.pc # "done"
    /\ other' = Context
    /\ alg' = other.alg
    /\ pc' = other.pc
    /\ orig' = other.orig
    /\ n' = other.n
    /\ i' = other.i
    /\ j' = other.j
    /\ key' = other.key
    /\ minIdx' = other.minIdx
    /\ swapped' = other.swapped
    /\ low' = other.low
    /\ high' = other.high
    /\ lt' = other.lt
    /\ gt' = other.gt
    /\ pivot' = other.pivot
    /\ stack' = other.stack
    /\ overlapped' = (overlapped \/ (Begun /\ pc # "done"))
    /\ UNCHANGED <<arr, msVars, callVars, count, jmVars, shared>>

\* The scheduler leaves the running invocation between two of its steps and
\* resumes the other one, which has not returned: each invocation keeps its
\* locals, and its array unless the two were given the same one.
Switch ==
    /\ other.alg # "none"
    /\ other.pc # "done"
    /\ other' = Context
    /\ alg' = other.alg
    /\ pc' = other.pc
    /\ arr' = IF shared THEN arr ELSE other.arr
    /\ orig' = other.orig
    /\ n' = other.n
    /\ i' = other.i
    /\ j' = other.j
    /\ key' = other.key
    /\ minIdx' = other.minIdx
    /\ swapped' = other.swapped
    /\ low' = other.low
    /\ high' = other.high
    /\ lt' = other.lt
    /\ gt' = other.gt
    /\ pivot' = other.pivot
    /\ stack' = other.stack
    /\ overlapped' = (overlapped \/ (Begun /\ pc # "done"))
    /\ UNCHANGED <<msVars, callVars, count, jmVars, shared>>

\* Two in-place sorts have been called: on one array w of fewer than MaxLen
\* elements that both were given, or on two arrays, the two parts of w, of
\* which each was given one.  A call reads no element, so that the order of
\* the two calls makes no difference.
ConcInit ==
    /\ shared \in BOOLEAN
    /\ overlapped = FALSE
    /\ \E w \in Inputs, k \in 0..MaxLen, a1 \in InPlaceSorts, a2 \in InPlaceSorts :
          /\ k <= length(w)
          /\ shared => (k = length(w) /\ length(w) < MaxLen)
          /\ LET s1 == IF shared THEN w ELSE slice(w, 0, k)
                 s2 == IF shared THEN w ELSE Retag(slice(w, k, length(w)))
             IN  /\ other = StartContext(a2, s2)
                 /\ alg = Called(a1, s1).alg
                 /\ pc = Called(a1, s1).pc
                 /\ arr = s1
                 /\ orig = s1
                 /\ n = Called(a1, s1).n
                 /\ i = Called(a1, s1).i
                 /\ j = Called(a1, s1).j
                 /\ key = Called(a1, s1).key
                 /\ minIdx = Called(a1, s1).minIdx
                 /\ swapped = Called(a1, s1).swapped
                 /\ low = Called(a1, s1).low
                 /\ high = Called(a1, s1).high
                 /\ lt = Called(a1, s1).lt
                 /\ gt = Called(a1, s1).gt
                 /\ pivot = Called(a1, s1).pivot
                 /\ stack = Called(a1, s1).stack
    /\ mid = 0
    /\ left = EmptyArr
    /\ right = EmptyArr
    /\ result = EmptyArr
    /\ ret = EmptyArr
    /\ arrRef = CallerRef
    /\ retRef = CallerRef
    /\ nextRef = CallerRef + 1
    /\ round = 1
    /\ prev = EmptyArr
    /\ arrIsNull = FALSE
    /\ count = NoCount
    /\ L_index = 0
    /\ R_index = 0
    /\ O_index = 0

ConcNext ==
    \/ Switch
    \/ ins_for
    \/ ins_shift
    \/ ins_place
    \/ sel_for
    \/ sel_scan
    \/ sel_swap
    \/ bub_for
    \/ bub_compare
    \/ bub_endPass
    \/ qs_base
    \/ qs_init
    \/ qs_less
    \/ qs_greater
    \/ qs_equal
    \/ qs_callLeft
    \/ qs_callRight
    \/ qs_end

ConcSpec == ConcInit /\ [][ConcNext]_vars

----------------------------------------------------------------------------
(* Properties *)

\* the routine a has returned to its caller
Returned(a) == alg = a /\ pc = "done"

\* a[p] <= a[p+1] for every valid p in lo..hi-1, comparing values
SortedBetween(a, lo, hi) == \A p \in lo..(hi - 1) : Val(a[p]) <= Val(a[p + 1])

Sorted(a) == SortedBetween(a, 0, length(a) - 1)

\* how often the value v occurs in a at the indices lo..hi
CountBetween(a, lo, hi, v) == Cardinality({p \in lo..hi : Val(a[p]) = v})

\* a and b have the same length and hold the same multiset of values
Permutation(a, b) ==
    /\ DOMAIN a = DOMAIN b
    /\ \A v \in Values :
          CountBetween(a, 0, length(a) - 1, v) = CountBetween(b, 0, length(b) - 1, v)

\* out holds exactly the tagged elements of the input, and elements of equal
\* value stand in the order of their input indices
Stable(out) ==
    /\ DOMAIN out = DOMAIN orig
    /\ {out[p] : p \in DOMAIN out} = {orig[p] : p \in DOMAIN orig}
    /\ \A p, q \in DOMAIN out :
          (p < q /\ Val(out[p]) = Val(out[q])) => Tag(out[p]) < Tag(out[q])

\* some value occurs twice in a
HasDuplicates(a) == \E p, q \in DOMAIN a : p # q /\ Val(a[p]) = Val(a[q])

\* the call was the top-level one: low = 0, high = length - 1
TopLevelCall == low = 0 /\ high = length(orig) - 1

\* C1: after quickSort3Way(x, 0, length-1) returns, x is sorted non-descending
\* and is a permutation of its original contents, duplicates included.
C1_QuickSortSortsPermutes ==
    (Returned("quick") /\ TopLevelCall) => (Sorted(arr) /\ Permutation(arr, orig))

C1_Witness ==
    /\ Returned("quick") /\ TopLevelCall
    /\ length(orig) = MaxLen
    /\ HasDuplicates(orig)
    /\ ~Sorted(orig)
    /\ Sorted(arr)

\* C2: mergeSort(x) returns a sequence that is sorted non-descending, has the
\* length of x and holds the same multiset of values as x.
C2_MergeSortSortsPermutes ==
    Returned("merge") => (Sorted(ret) /\ length(ret) = length(orig) /\ Permutation(ret, orig))

C2_Witness ==
    /\ Returned("merge")
    /\ length(orig) = MaxLen
    /\ ~Sorted(orig)
    /\ Sorted(ret)

\* C3: after insertionSort(x) returns, x is sorted non-descending and is a
\* permutation of its original contents.
C3_InsertionSortSortsPermutes ==
    Returned("insertion") => (Sorted(arr) /\ Permutation(arr, orig))

C3_Witness ==
    /\ Returned("insertion")
    /\ length(orig) = MaxLen
    /\ ~Sorted(orig)
    /\ Sorted(arr)

\* C4: after selectionSort(x) returns, x is sorted non-descending and is a
\* permutation of its original contents.
C4_SelectionSortSortsPermutes ==
    Returned("selection") => (Sorted(arr) /\ Permutation(arr, orig))

C4_Witness ==
    /\ Returned("selection")
    /\ length(orig) = MaxLen
    /\ ~Sorted(orig)
    /\ Sorted(arr)

\* C5: after bubbleSort(x) returns, through the early exit or after all
\* passes, x is sorted non-descending and is a permutation of its original
\* contents.
C5_BubbleSortSortsPermutes ==
    Returned("bubble") => (Sorted(arr) /\ Permutation(arr, orig))

\* a return after the last pass, not through the break: the loop test failed
C5_Witness ==
    /\ Returned("bubble")
    /\ length(orig) = MaxLen
    /\ ~Sorted(orig)
    /\ Sorted(arr)
    /\ swapped
    /\ i = n - 1

\* a return through the break on a pass without exchange
C5_WitnessEarlyExit ==
    /\ Returned("bubble")
    /\ ~Sorted(orig)
    /\ ~swapped
    /\ i < n - 1

\* C6: for 0 <= low <= high < length, quickSort3Way(seq, low, high) leaves the
\* positions low..high sorted non-descending and holding a permutation of the
\* values they held before, and leaves every element outside low..high as it
\* was.
C6_QuickSortRangeAndFrame ==
    (Returned("quick") /\ 0 <= low /\ low <= high /\ high < length(orig)) =>
        /\ DOMAIN arr = DOMAIN orig
        /\ SortedBetween(arr, low, high)
        /\ \A v \in Values :
              CountBetween(arr, low, high, v) = CountBetween(orig, low, high, v)
        /\ \A p \in DOMAIN orig : (p < low \/ p > high) => arr[p] = orig[p]

\* a proper inner range that had to be reordered, below unsorted neighbours
C6_Witness ==
    /\ Returned("quick")
    /\ 0 < low /\ low < high /\ high < length(orig) - 1
    /\ ~SortedBetween(orig, low, high)
    /\ SortedBetween(arr, low, high)
    /\ ~Sorted(arr)

\* C7: mergeSort is stable: elements of equal value come out in the relative
\* order they had in the input.
C7_MergeSortStable == Returned("merge") => Stable(ret)

\* an input in which a value occurs in both halves of the top-level split, so
\* that the last merge compares two equal fronts
C7_Witness ==
    /\ Returned("merge")
    /\ ~Sorted(orig)
    /\ \E p, q \in DOMAIN orig : p < mid /\ mid <= q /\ Val(orig[p]) = Val(orig[q])
    /\ Stable(ret)

\* C8: insertionSort is stable: elements of equal value come out in the
\* relative order they had in the input.
C8_InsertionSortStable == Returned("insertion") => Stable(arr)

\* an equal pair with a smaller value behind it, which is shifted past both
C8_Witness ==
    /\ Returned("insertion")
    /\ \E p, q, r \in DOMAIN orig :
          /\ p < q /\ q < r
          /\ Val(orig[p]) = Val(orig[q])
          /\ Val(orig[r]) < Val(orig[q])
    /\ Stable(arr)

\* C9: bubbleSort is stable: elements of equal value come out in the relative
\* order they had in the input.
C9_BubbleSortStable == Returned("bubble") => Stable(arr)

\* an adjacent equal pair that a pass compares, in an input that needs exchanges
C9_Witness ==
    /\ Returned("bubble")
    /\ length(orig) >= 3
    /\ Val(orig[0]) = Val(orig[1])
    /\ Val(orig[2]) < Val(orig[1])
    /\ Stable(arr)

\* C10: selectionSort is not stable: on every three-element input whose first
\* two values are equal and whose third is smaller, the exchange of the first
\* pass carries the first element behind its equal, and they come out in the
\* opposite order.
C10_SelectionSortUnstable ==
    ( /\ Returned("selection")
      /\ length(orig) = 3
      /\ Val(orig[0]) = Val(orig[1])
      /\ Val(orig[2]) < Val(orig[0]) ) =>
        /\ Val(arr[1]) = Val(arr[2])
        /\ Tag(arr[1]) = 1
        /\ Tag(arr[2]) = 0

C10_Witness ==
    /\ Returned("selection")
    /\ length(orig) = 3
    /\ Val(orig[0]) = Val(orig[1])
    /\ Val(orig[2]) < Val(orig[0])
    /\ Permutation(arr, orig)
    /\ ~Stable(arr)

\* the parameters low and high of the outermost quickSort3Way call
qsTop == IF stack = <<>> THEN [low |-> low, high |-> high]
                         ELSE [low |-> stack[Len(stack)].low, high |-> stack[Len(stack)].high]

\* low or high of the outermost call lies outside [0, length-1]
OutOfRangeCall ==
    /\ alg = "quick"
    /\ ~arrIsNull
    /\ (qsTop.low \notin DOMAIN orig \/ qsTop.high \notin DOMAIN orig)

\* C11: quickSort3Way called with low or high outside [0, length-1] is
\* rejected with a bounds error: it neither returns normally nor reads or
\* writes the sequence outside its index range, also when low >= high.
C11_OutOfRangeRejected == OutOfRangeCall => pc \notin {"done", "oob"}

\* every element of a has the same value
AllEqual(a) == \A p, q \in DOMAIN a : Val(a[p]) = Val(a[q])

\* quickSort3Way is running or has returned, and its outermost call is the
\* top-level one: low = 0, high = length - 1
QuickTopLevel ==
    /\ alg = "quick"
    /\ qsTop.low = 0
    /\ qsTop.high = length(orig) - 1

\* C12 as stated: on an all-equal input quickSort3Way(seq, 0, n-1) makes at
\* most one partitioning pass, no exchange that changes the sequence, and
\* zero recursive sub-calls.
C12_AllEqualZeroSubCalls ==
    (QuickTopLevel /\ AllEqual(orig) /\ pc = "done") =>
        /\ count.passes <= 1
        /\ count.exchanges = 0
        /\ arr = orig
        /\ count.calls = 0

\* C12 amended: on an all-equal input quickSort3Way(seq, 0, n-1) never
\* exchanges and never changes the sequence; for n >= 2 it makes one
\* partitioning pass and exactly two recursive sub-calls, both on an empty
\* range (high = low - 1), which return at the base case; for n <= 1 it makes
\* no pass and no sub-call.
C12_AllEqualTwoEmptySubCalls ==
    (QuickTopLevel /\ AllEqual(orig)) =>
        /\ count.exchanges = 0
        /\ arr = orig
        /\ (pc = "qs_entry" /\ stack # <<>>) => high = low - 1
        /\ pc = "done" =>
              IF length(orig) >= 2
                THEN count.passes = 1 /\ count.calls = 2
                ELSE count.passes = 0 /\ count.calls = 0

C12_Witness ==
    /\ QuickTopLevel /\ AllEqual(orig) /\ pc = "done"
    /\ length(orig) = MaxLen
    /\ count.passes = 1
    /\ count.calls = 2
    /\ count.comparisons = 2 * (MaxLen - 1)

\* C13 as stated: mergeSort(seq) returns a new sequence, distinct from the
\* caller's seq object, for every input, the empty and the single-element
\* sequence included.
C13_MergeSortReturnsNewObject == Returned("merge") => retRef # CallerRef

\* C13 amended: mergeSort(seq) returns a newly allocated sequence, distinct
\* from the caller's seq object, for every input of length 2 or more; for the
\* empty and the single-element sequence it returns the caller's seq object
\* itself.
C13_MergeSortNewObjectFromLengthTwo ==
    Returned("merge") =>
        /\ (length(orig) >= 2 => (retRef # CallerRef /\ retRef = nextRef - 1))
        /\ (length(orig) <= 1 => (retRef = CallerRef /\ ret = orig))

C13_Witness ==
    /\ Returned("merge")
    /\ length(orig) = MaxLen
    /\ retRef # CallerRef
    /\ Sorted(ret)

\* the values of a, index by index
ValuesOf(a) == [k \in DOMAIN a |-> Val(a[k])]

\* C14: each of the five sorts is idempotent on values: the sort applied to
\* its own result returns a sequence equal to that result element by element.
C14_Idempotent ==
    (pc = "done" /\ round >= 2) => ValuesOf(Output) = ValuesOf(prev)

\* the second call has returned, on the result of a first call on a longest
\* input with more than one value
C14_Witness ==
    /\ pc = "done"
    /\ round = 2
    /\ length(prev) = MaxLen
    /\ ~AllEqual(prev)
    /\ ValuesOf(Output) = ValuesOf(prev)

\* C15: for each of the five sorts an empty sequence yields an empty result
\* and a single-element sequence yields the same single element, and no step
\* reads or writes an index out of range; quickSort3Way is called top-level,
\* with low = 0 and high = length - 1 (-1 on the empty sequence).
C15_EmptyAndSingle ==
    (alg # "none" /\ length(orig) <= 1 /\ (alg = "quick" => QuickTopLevel)) =>
        /\ pc # "oob"
        /\ arr = orig
        /\ pc = "done" => Output = orig

\* the top-level quickSort3Way call has returned on a single-element sequence
C15_Witness ==
    /\ Returned("quick")
    /\ length(orig) = 1
    /\ low = 0 /\ high = 0
    /\ Output = orig

\* mergeSort has returned on the empty sequence
C15_WitnessEmpty ==
    /\ Returned("merge")
    /\ length(orig) = 0
    /\ Output = orig

\* a call of one of the five sorts is under way on a finite sequence, for
\* quickSort3Way with 0 <= low and high < length
WellFormedCall ==
    /\ alg # "none"
    /\ ~arrIsNull
    /\ alg = "quick" => (0 <= qsTop.low /\ qsTop.high < length(orig))

\* C16: every one of the five sorts terminates on every finite input (for
\* quickSort3Way, with every pair of bounds in range): a call under way
\* always comes to its return.
C16_Terminates == (WellFormedCall /\ pc # "done") ~> (pc = "done")

\* a quickSort3Way call on a proper in-range window has returned after
\* recursive calls
C16_Witness ==
    /\ Returned("quick")
    /\ 0 <= low /\ low < high /\ high < length(orig)
    /\ count.calls >= 4
    /\ count.passes >= 2

\* C17: on an already-sorted input of length n >= 2 bubbleSort makes exactly
\* one pass of n-1 adjacent comparisons, exchanges nothing and leaves through
\* the early-termination check; on length 0 or 1 it makes no pass.
C17_BubbleSortBestCase ==
    (Returned("bubble") /\ Sorted(orig)) =>
        IF length(orig) >= 2
          THEN /\ count.passes = 1
               /\ count.comparisons = length(orig) - 1
               /\ count.exchanges = 0
               /\ ~swapped /\ i = 0 /\ i < n - 1
          ELSE /\ count.passes = 0
               /\ count.comparisons = 0

C17_Witness ==
    /\ Returned("bubble")
    /\ Sorted(orig)
    /\ length(orig) = MaxLen
    /\ HasDuplicates(orig)
    /\ count.passes = 1
    /\ count.comparisons = MaxLen - 1

\* C18: on an already-sorted input of length n >= 1 insertionSort makes
\* exactly n-1 element comparisons, one in each outer iteration, shifts no
\* element and never changes the value stored at any index.
C18_InsertionSortBestCase ==
    (alg = "insertion" /\ Sorted(orig) /\ length(orig) >= 1) =>
        /\ arr = orig
        /\ count.shifts = 0
        /\ count.comparisons <= count.passes
        /\ pc = "done" =>
              /\ count.comparisons = length(orig) - 1
              /\ count.passes = length(orig) - 1

C18_Witness ==
    /\ Returned("insertion")
    /\ Sorted(orig)
    /\ length(orig) = MaxLen
    /\ HasDuplicates(orig)
    /\ count.comparisons = MaxLen - 1
    /\ count.shifts = 0

\* C19 as stated: for every input of length n selectionSort makes at most
\* n-1 exchanges in all.
C19_SelectionSortAtMostNMinusOne ==
    alg = "selection" => count.exchanges <= length(orig) - 1

\* C19 amended: for every input of length n >= 1 selectionSort makes at most
\* n-1 exchanges in all, at most one in each outer iteration (exactly n-1 when
\* it returns); on the empty input it makes none.
C19_SelectionSortExchanges ==
    alg = "selection" =>
        /\ count.exchanges <= count.passes
        /\ length(orig) >= 1 => count.exchanges <= length(orig) - 1
        /\ length(orig) = 0 => count.exchanges = 0
        /\ (pc = "done" /\ length(orig) >= 1) => count.exchanges = length(orig) - 1

C19_Witness ==
    /\ Returned("selection")
    /\ length(orig) = MaxLen
    /\ ~Sorted(orig)
    /\ count.exchanges = MaxLen - 1

\* C20: a sort given a null reference fails with an error and never returns
\* silently as a no-op; given an empty array that is present it throws
\* nothing and returns it as it is.
C20_NullFailsFast ==
    /\ (alg # "none" /\ arrIsNull) => pc # "done"
    /\ (alg # "none" /\ ~arrIsNull /\ length(orig) = 0) =>
          /\ pc # "thrown"
          /\ pc = "done" => (Output = orig /\ count = NoCount)

\* the partitioning loop of the running quickSort3Way call has just exited
LoopExit == alg = "quick" /\ pc = "qs_while" /\ ~(i <= gt)

\* a recursive quickSort3Way call has just been entered
RecursiveEntry == alg = "quick" /\ pc = "qs_entry" /\ stack # <<>>

\* C24: when the partitioning loop of quickSort3Way(seq, low, high) exits,
\* [low, lt) holds values less than the pivot, [lt, gt] values equal to it and
\* (gt, high] values greater than it, the pivot being seq[low] as read on
\* entry; the two recursive calls are on exactly [low, lt-1] and [gt+1, high].
C24_PartitionPostcondition ==
    /\ LoopExit =>
          /\ low < high
          /\ \A k \in low..(lt - 1) : Val(arr[k]) < Val(pivot)
          /\ \A k \in lt..gt : Val(arr[k]) = Val(pivot)
          /\ \A k \in (gt + 1)..high : Val(arr[k]) > Val(pivot)
    /\ RecursiveEntry =>
          /\ Head(stack).rpc = "qs_after1" =>
                (low = Head(stack).low /\ high = Head(stack).lt - 1)
          /\ Head(stack).rpc = "qs_after2" =>
                (low = Head(stack).gt + 1 /\ high = Head(stack).high)

\* a loop exit with all three regions present, the equal one of two elements
C24_Witness ==
    /\ LoopExit
    /\ low < lt /\ lt < gt /\ gt < high

\* C25: at the start of every outer iteration i of insertionSort the prefix
\* [0, i) is sorted and holds the elements the input had at [0, i), and the
\* suffix [i, length) holds the input's values at their positions.
C25_InsertionSortLoopInvariant ==
    (alg = "insertion" /\ pc = "ins_for" /\ 1 <= i /\ i < length(arr)) =>
        /\ DOMAIN arr = DOMAIN orig
        /\ SortedBetween(arr, 0, i - 1)
        /\ \A v \in Values :
              CountBetween(arr, 0, i - 1, v) = CountBetween(orig, 0, i - 1, v)
        /\ \A p \in i..(length(arr) - 1) : arr[p] = orig[p]

\* the last outer iteration starts on a prefix that had to be reordered
C25_Witness ==
    /\ alg = "insertion" /\ pc = "ins_for"
    /\ i = MaxLen - 1 /\ i < length(arr)
    /\ ~SortedBetween(orig, 0, i - 1)
    /\ SortedBetween(arr, 0, i - 1)
    /\ Val(arr[i]) < Val(arr[i - 1])

\* the last k positions hold the k largest values in non-descending order
Finalised(k) ==
    \A p \in (n - k)..(n - 1) : \A q \in 0..(p - 1) : Val(arr[q]) <= Val(arr[p])

\* the passes of the running bubbleSort call that are complete
PassesDone == IF pc = "bub_inner" /\ ~bubInnerCond(j, n, i) THEN i + 1 ELSE i

\* C26: once pass p of bubbleSort is complete the last p+1 positions hold
\* the p+1 largest values of the input in non-descending order, and no later
\* step writes them; so every adjacent pair that pass p leaves out, those from
\* length-1-p on, is in order.
C26_BubbleSortFinalisedSuffix ==
    /\ []((alg = "bubble" /\ pc \in {"bub_for", "bub_inner"}) =>
            /\ Permutation(arr, orig)
            /\ Finalised(PassesDone)
            /\ \A p \in (n - 1 - i)..(n - 2) : ~bubGreater(arr, p))
    /\ [][(alg = "bubble" /\ pc = "bub_inner") =>
            \A p \in (n - i)..(n - 1) : arr'[p] = arr[p]]_vars

\* the third pass is under way above two finalised positions
C26_Witness ==
    /\ alg = "bubble" /\ pc = "bub_inner"
    /\ i = 2 /\ j = 1 /\ swapped
    /\ n = MaxLen
    /\ Finalised(2)

\* the outermost quickSort3Way call was made with 0 <= low and high < length
InRangeCall ==
    /\ alg = "quick"
    /\ ~arrIsNull
    /\ 0 <= qsTop.low /\ qsTop.high < length(orig)

\* C27: during quickSort3Way(seq, low, high) with 0 <= low < high < length
\* the loop keeps low <= lt <= i <= gt+1 <= high+1, lt <= gt and seq[lt] equal
\* to the pivot, and every index read, written or exchanged is in [low, high].
C27_QuickSortIndexBounds ==
    InRangeCall =>
        /\ pc # "oob"
        /\ pc = "qs_entry" => qsTouched \subseteq low..high
        /\ pc = "qs_while" =>
              /\ 0 <= low /\ low < high /\ high < length(arr)
              /\ low <= lt /\ lt <= i /\ i <= gt + 1 /\ gt + 1 <= high + 1
              /\ lt <= gt
              /\ Val(arr[lt]) = Val(pivot)
              /\ qsTouched \subseteq low..high

\* the scan stands on the last unexamined element, with both pointers moved
C27_Witness ==
    /\ InRangeCall
    /\ pc = "qs_while"
    /\ low < lt /\ gt < high /\ i = gt
    /\ qsTouched = {i, gt}

\* C28: every recursive call made by quickSort3Way(seq, low, high) receives a
\* subrange that lies inside [low, high] and is strictly shorter (the region
\* [lt, gt] equal to the pivot is never empty), so calls never nest deeper
\* than high-low+1, the outermost one counted.
C28_QuickSortSubrangesShrink ==
    /\ LoopExit => lt <= gt
    /\ RecursiveEntry =>
          /\ Head(stack).low <= low
          /\ high <= Head(stack).high
          /\ high - low < Head(stack).high - Head(stack).low
          /\ Len(stack) + 1 <= qsTop.high - qsTop.low + 1

\* a recursive call two levels down on a range that is still partitioned
C28_Witness ==
    /\ RecursiveEntry
    /\ Len(stack) = 2
    /\ low < high
    /\ qsTop.high - qsTop.low + 1 = MaxLen

\* the parameter arr of the outermost mergeSort call: the caller's array
msTopArr == IF stack = <<>> THEN arr ELSE stack[Len(stack)].arr

\* C30: mergeSort never writes to the array it is given: while the call runs
\* and after it returns every element of the caller's array is the element
\* it was before the call.
C30_MergeSortLeavesInput ==
    (alg = "merge" /\ ~arrIsNull) =>
        /\ msTopArr = orig
        /\ pc = "done" => (arr = orig /\ arrRef = CallerRef)

\* an unsorted input of full length is still unsorted after the sorted
\* result has been returned in another array
C30_Witness ==
    /\ Returned("merge")
    /\ length(orig) = MaxLen
    /\ ~Sorted(orig)
    /\ arr = orig
    /\ Sorted(ret)
    /\ retRef # CallerRef

\* C23 (MergeJavaSpec): after MergeSort.mergeSort(array) returns, array is
\* sorted non-descending and a permutation of what it held, merge having
\* filled every position from the two halves; and the call does return
\* rather than throw.
C23_JavaMergeSortSorts ==
    alg = "MergeSort" =>
        /\ pc # "ArrayIndexOutOfBounds"
        /\ pc = "done" => (Sorted(arr) /\ Permutation(arr, orig))

\* C29 (QuickJavaSpec): for every input and all bounds 0 <= low, high <
\* length, quicksort3.sort, whose scan starts at i = low, leaves the array
\* as quickSort3Way, whose scan starts at i = low + 1, leaves it.
C29_JavaQuickSortSameResult ==
    (alg = "quicksort3" /\ pc = "done") => arr = prev

\* both have run on a window inside a full-length array that holds a
\* duplicate and had to be reordered
C29_Witness ==
    /\ alg = "quicksort3" /\ pc = "done"
    /\ length(orig) = MaxLen
    /\ 0 < low /\ low + 1 < high
    /\ HasDuplicates(orig)
    /\ arr # orig
    /\ arr = prev

\* two invocations were made and both have returned
BothReturned == other.alg # "none" /\ pc = "done" /\ other.pc = "done"

\* the array is sorted and holds the values it held when the sorts were called
SortedPermutation(a, o) == Sorted(a) /\ Permutation(a, o)

\* C21 (ConcSpec): two in-place sorts given the same array are not safe when
\* their steps interleave: a result that is not a sorted permutation of the
\* original contents comes only from runs in which one invocation ran while
\* the other was under way, and (C21_Witness) such a run exists.  Run one
\* after the other, the two leave a sorted permutation.
C21_SharedArrayUnsafeOnlyInterleaved ==
    (shared /\ other.alg # "none") =>
        /\ DOMAIN arr = DOMAIN orig
        /\ (BothReturned /\ ~SortedPermutation(arr, orig)) => overlapped

\* two insertionSort calls on one array have both returned, and a value of
\* the array has been lost and another one duplicated
C21_Witness ==
    /\ shared
    /\ BothReturned
    /\ alg = "insertion" /\ other.alg = "insertion"
    /\ overlapped
    /\ ~Permutation(arr, orig)
    /\ \E p, q \in DOMAIN arr : p # q /\ arr[p] = arr[q]

\* two selectionSort calls on one array have both returned and left it out
\* of order
C21_WitnessOrder ==
    /\ shared
    /\ BothReturned
    /\ alg = "selection" /\ other.alg = "selection"
    /\ ~Sorted(arr)

\* C22 (ConcSpec): two sorts given an array each: under every interleaving
\* each array ends as its sort leaves it when run alone, sorted and with the
\* values it held; for every step of an invocation leaves the locals and the
\* array of the other one as they are, and a switch only exchanges the two.
C22_IndependentArraysSafe ==
    /\ []((~shared /\ other.alg # "none") =>
            /\ pc = "done" => SortedPermutation(arr, orig)
            /\ other.pc = "done" => SortedPermutation(other.arr, other.orig)
            /\ alg = "bubble" /\ pc = "done" => Stable(arr))
    /\ [][(~shared /\ other.alg # "none") =>
            \/ other' = other
            \/ other' = Context /\ Context' = other]_vars

\* a bubbleSort and a quickSort3Way call, each on an unsorted array of its
\* own, have both returned after running in turns
C22_Witness ==
    /\ ~shared
    /\ BothReturned
    /\ overlapped
    /\ alg = "bubble" /\ other.alg = "quick"
    /\ ~Sorted(orig) /\ ~Sorted(other.orig)
    /\ length(orig) + length(other.orig) = MaxLen

====
